---------------------------- MODULE Spec2Model ----------------------------
(***************************************************************************)
(* The accounting and pricing core of the two-asset AMM pool: reserves,    *)
(* LP supply, the three-tier fee schedule, fee accumulators, the lock and  *)
(* the authorized set.                                                     *)
(*                                                                         *)
(* createPool, swapAtoB and addLiquidity are the functions of              *)
(* contracts/pool.ts, applied to pools[1]; the                             *)
(* quote (get_amount_out) and the constants are the README's; the message  *)
(* payloads and the initial storage are those the wrappers encode.  The    *)
(* handlers of burn_notification, collect_fees, set_fees, set_lock_status, *)
(* update_reserves and add/remove_authorized are in no source file: their  *)
(* validation and failure kinds follow the specification document.  The    *)
(* staking, lending and DAO functions of contracts/pool.ts are modelled    *)
(* beside the pool, whose state they do not touch.                         *)
(***************************************************************************)
EXTENDS Integers, Sequences, FiniteSets, TLC

\* pool is pools[1], the pool the operations are sent to; poolCount is the
\* number of createPool calls so far.
VARIABLES pool, poolCount, farm, last

vars == <<pool, poolCount, farm, last>>

(***************************************************************************)
(* Constants of the contract (README, "Constants").                        *)
(***************************************************************************)
FEE_DIVIDER == 10000
MIN_FEE == 0
MAX_FEE == 200
REQUIRED_MIN_COLLECT_FEES == 1000000
\* "Small reward (0.1%) given to the collector": reward = amount / 1000.
COLLECTOR_REWARD_DIVIDER == 1000
\* README sets MAX_COINS = 2^120 - 1, far outside TLC's 32-bit integers; the
\* model narrows it so that short runs drive the reserves up to it.
MAX_COINS == 2
\* setFees stores each rate in 8 bits.
FEE_BITS == 8
\* Globals of the staking and lending functions.
rewardPerBlock == 10
loanInterestRate == 5
loanDuration == 100

(***************************************************************************)
(* Bounds of the model: the inputs the operations are tried with and the   *)
(* size of the pools that are explored.                                    *)
(***************************************************************************)
MaxAmount == 2
\* Runs are followed while both reserves stay within MaxReserve and the LP
\* supply within MaxSupply.
MaxReserve == 3
MaxSupply == 4
\* createPool is followed up to MaxPools pools.
MaxPools == 2

Amounts == 0..MaxAmount
\* Fee schedules a set_fees request may carry (lp, protocol, ref): one within
\* the range, one with a rate just above MAX_FEE, and one the 8-bit field of
\* the message cannot hold.
FeeRequests ==
    {<<MIN_FEE, MAX_FEE, 0>>, <<30, MAX_FEE + 1, 0>>, <<30, 5, 2 ^ FEE_BITS>>}
Null == "addr_none"
Owner == "owner"
Admin == "admin"
User == "user"
\* Who sends an administrative message: the owner, an address the owner may
\* authorize, and a stranger.
Callers == {Owner, Admin, User}
Recipients == {"treasury2", Null}
Tokens == {0, 1}
\* The referral address of a swap message: refAddress || null.
RefAddresses == {"referrer", Null}

(***************************************************************************)
(* Arithmetic.                                                             *)
(***************************************************************************)
CeilDiv(a, b) == (a + b - 1) \div b

(***************************************************************************)
(* get_amount_out (README, "Fee Calculation Logic").                       *)
(***************************************************************************)
\* Faulty variant of BaseOut: the quotient rounded to the nearest integer.
BaseOutNearest(amount, reserve_in, reserve_out) ==
    (2 * amount * reserve_out + reserve_in + amount) \div (2 * (reserve_in + amount))

\* Faulty variant of BaseOut: the quotient rounded up.
BaseOutCeil(amount, reserve_in, reserve_out) ==
    CeilDiv(amount * reserve_out, reserve_in + amount)

\* The constant-product output, an integer division: step 1 of get_amount_out
\* and amountB of swapAtoB.
BaseOut(amount, reserve_in, reserve_out) ==
    (amount * reserve_out) \div (reserve_in + amount)

\* Faulty variant of FeeOf: the fee rounded down.
FeeOfFloor(base_out, rate) == (base_out * rate) \div FEE_DIVIDER

\* Step 2: one fee, rounded up.
FeeOf(base_out, rate) == CeilDiv(base_out * rate, FEE_DIVIDER)

GetAmountOut(p, has_ref, amount, reserve_in, reserve_out) ==
    LET base_out == BaseOut(amount, reserve_in, reserve_out)
        provider_fee == FeeOf(base_out, p.lp_fee)
        protocol_fee == FeeOf(base_out, p.protocol_fee)
        ref_fee == IF has_ref THEN FeeOf(base_out, p.ref_fee) ELSE 0
    IN  [base_out |-> base_out,
         provider_fee |-> provider_fee,
         protocol_fee |-> protocol_fee,
         ref_fee |-> ref_fee,
         final_out |-> base_out - provider_fee - protocol_fee - ref_fee]

(***************************************************************************)
(* Results of an operation: the failure kind (or "ok"), the pool after it  *)
(* and the payout instructions it emits.                                   *)
(***************************************************************************)
Ok(p, out) == [err |-> "ok", pool |-> p, out |-> out]

Fail(p, e) == [err |-> e, pool |-> p, out |-> <<>>]

Pay(to, token, amount) == [to |-> to, token |-> token, amount |-> amount]

(***************************************************************************)
(* Initial storage.  poolConfigToCell writes zero reserves, a zero supply, *)
(* is_locked = 0 and an empty authorized dictionary.  data() writes the    *)
(* three fee rates, 8 bits each and unchecked, and the protocol fee        *)
(* address; the provider fee address and the provider fee accumulators are *)
(* the README's storage variables.                                         *)
(***************************************************************************)
\* Fee rates (lp, protocol, ref) a pool's data cell is built with: a usual
\* schedule, and one with rates above MAX_FEE that the 8-bit fields hold.
InitRates == {<<30, 5, 10>>, <<0, MAX_FEE + 1, 2 ^ FEE_BITS - 1>>}

PoolData(rates) ==
    [reserve0 |-> 0, reserve1 |-> 0, total_supply_lp |-> 0,
     collected_token0_provider_fee |-> 0, collected_token1_provider_fee |-> 0,
     collected_token0_protocol_fee |-> 0, collected_token1_protocol_fee |-> 0,
     lp_fee |-> rates[1], protocol_fee |-> rates[2], ref_fee |-> rates[3],
     provider_fee_address |-> "providers",
     protocol_fee_address |-> "treasury",
     is_locked |-> FALSE,
     authorized_addresses |-> {}]

NoOp == [op |-> "init", err |-> "ok", out |-> <<>>, res |-> <<>>]

\* Who stakes and borrows.
Senders == {User, Admin}

NoLoan ==
    [loanAmount |-> 0, collateralAmount |-> 0, interestRate |-> 0,
     dueBlock |-> 0, isRepaid |-> FALSE]

\* stakers, loans and communityDAO start empty: a sender without an entry reads
\* as a zero record.
NoFarm ==
    [stakers |-> [s \in Senders |-> [stakedAmount |-> 0, rewardDebt |-> 0]],
     loans |-> [s \in Senders |-> NoLoan],
     members |-> {},
     treasury |-> 0]

\* No pool created yet (poolCount = 0), no staker, no loan; nothing has run.
Fresh == poolCount = 0 /\ farm = NoFarm /\ last = NoOp

\* The contract as deployed: pools[1] holds no reserves and no supply.
Init ==
    /\ \E rates \in InitRates : pool = PoolData(rates)
    /\ Fresh

ReserveOf(p, t) == IF t = 0 THEN p.reserve0 ELSE p.reserve1

ProviderFeeOf(p, t) ==
    IF t = 0 THEN p.collected_token0_provider_fee ELSE p.collected_token1_provider_fee

ProtocolFeeOf(p, t) ==
    IF t = 0 THEN p.collected_token0_protocol_fee ELSE p.collected_token1_protocol_fee

TotalFees(p, t) == ProviderFeeOf(p, t) + ProtocolFeeOf(p, t)

WithReserves(p, r0, r1) == [p EXCEPT !.reserve0 = r0, !.reserve1 = r1]

WithFees(p, t, provider, protocol) ==
    IF t = 0
    THEN [p EXCEPT !.collected_token0_provider_fee = provider,
                   !.collected_token0_protocol_fee = protocol]
    ELSE [p EXCEPT !.collected_token1_provider_fee = provider,
                   !.collected_token1_protocol_fee = protocol]

\* One operation runs to completion: the pool becomes the handler's result, and
\* the outcome (failure kind, payout instructions) is what the caller observes.
Apply(op, r, res) ==
    /\ pool' = r.pool
    /\ UNCHANGED <<poolCount, farm>>
    /\ last' = [op |-> op, err |-> r.err, out |-> r.out, res |-> res]

\* The pools that runs are followed to.
Explored(p) ==
    /\ p.reserve0 <= MaxReserve /\ p.reserve1 <= MaxReserve
    /\ p.total_supply_lp <= MaxSupply

(***************************************************************************)
(* createPool.                                                             *)
(***************************************************************************)
\* Pool(amountA + amountB, amountA, amountB, []): the new pool holds the two
\* amounts and a supply of their sum, credited to nobody.
NewPool(p, amountA, amountB) ==
    [WithReserves(p, amountA, amountB) EXCEPT !.total_supply_lp = amountA + amountB]

\* poolCount += 1; pools[poolCount] = newPool.  The first call writes pools[1],
\* whatever it held; a later call writes another pool and leaves pools[1] alone.
CreatePool ==
    \E amountA \in Amounts, amountB \in Amounts :
        /\ poolCount < MaxPools
        /\ poolCount' = poolCount + 1
        /\ pool' = IF poolCount + 1 = 1 THEN NewPool(pool, amountA, amountB) ELSE pool
        /\ UNCHANGED farm
        /\ last' = [op |-> "create_pool", err |-> "ok", out |-> <<>>,
                    res |-> [poolId |-> poolCount + 1]]

(***************************************************************************)
(* swap: swapAtoB.  Token A is token 0, token B is token 1.                *)
(***************************************************************************)
\* Faulty variant of SwapReserves: the amount paid in is not added to tokenA.
SwapReservesNoDeposit(p, amountA, amountB) ==
    WithReserves(p, p.reserve0, p.reserve1 - amountB)

\* pool.tokenA += amountA; pool.tokenB -= amountB.
SwapReserves(p, amountA, amountB) ==
    WithReserves(p, p.reserve0 + amountA, p.reserve1 - amountB)

\* swapAtoB checks nothing: not the lock, not the reserves, not the amount.  It
\* charges no fee and pays the whole constant-product amount to the sender.
\* Its one failure is the division by tokenA + amountA = 0, which aborts the
\* call before anything is written.
SwapAtoB(p, amountA, sender) ==
    IF p.reserve0 + amountA = 0 THEN Fail(p, "DivisionByZero")
    ELSE LET amountB == BaseOut(amountA, p.reserve0, p.reserve1)
         IN  Ok(SwapReserves(p, amountA, amountB), <<Pay(sender, 1, amountB)>>)

\* The swap message also carries minOutput, hasRef and refAddress, which
\* swapAtoB does not read.
Swap ==
    \E amount \in Amounts, ref_address \in RefAddresses :
        LET r == SwapAtoB(pool, amount, User)
        IN  /\ Explored(r.pool)
            /\ Apply("swap", r, [amount |-> amount])

(***************************************************************************)
(* provide_liquidity: addLiquidity.                                        *)
(***************************************************************************)
\* What a deposit adds to totalLiquidity and credits to its provider.
LpMinted(amountA, amountB) == amountA + amountB

\* addLiquidity checks nothing either: both amounts enter the reserves whole,
\* whatever the ratio, and nothing is refunded.
AddLiquidity(p, amountA, amountB, sender) ==
    Ok([WithReserves(p, p.reserve0 + amountA, p.reserve1 + amountB)
           EXCEPT !.total_supply_lp = p.total_supply_lp + LpMinted(amountA, amountB)],
       <<Pay(sender, "LP", LpMinted(amountA, amountB))>>)

\* The provide_liquidity message also carries minLPOut, which addLiquidity
\* does not read.
ProvideLiquidity ==
    \E amount0 \in Amounts, amount1 \in Amounts :
        LET r == AddLiquidity(pool, amount0, amount1, User)
        IN  /\ Explored(r.pool)
            /\ Apply("provide_liquidity", r,
                     [amount0 |-> amount0, amount1 |-> amount1,
                      minted |-> r.out[1].amount])

(***************************************************************************)
(* burn_notification.                                                      *)
(***************************************************************************)
\* compute_remove: the pro-rata share of one reserve.
RemoveShare(lp, reserve, total_supply) == (lp * reserve) \div total_supply

\* A burn of nothing out of an empty supply divides by zero.
BurnResult(p, lp, from) ==
    LET amount0 == RemoveShare(lp, p.reserve0, p.total_supply_lp)
        amount1 == RemoveShare(lp, p.reserve1, p.total_supply_lp)
    IN  IF p.is_locked THEN Fail(p, "Locked")
        ELSE IF lp > p.total_supply_lp THEN Fail(p, "LowLiquidity")
        ELSE IF p.total_supply_lp = 0 THEN Fail(p, "MathError")
        ELSE Ok([WithReserves(p, p.reserve0 - amount0, p.reserve1 - amount1)
                    EXCEPT !.total_supply_lp = p.total_supply_lp - lp],
                <<Pay(from, 0, amount0), Pay(from, 1, amount1)>>)

\* A burn that directly follows a deposit remembers that deposit.
DepositBefore ==
    IF last.op = "provide_liquidity" /\ last.err = "ok"
    THEN [follows |-> TRUE, amount0 |-> last.res.amount0,
          amount1 |-> last.res.amount1, minted |-> last.res.minted]
    ELSE [follows |-> FALSE]

BurnNotification ==
    \E lp \in 0..MaxSupply :
        LET r == BurnResult(pool, lp, User)
        IN  Apply("burn_notification", r,
                  IF r.err = "ok" THEN [lp |-> lp, deposit |-> DepositBefore] ELSE <<>>)

(***************************************************************************)
(* collect_fees.                                                           *)
(***************************************************************************)
CollectorReward(p, t) == TotalFees(p, t) \div COLLECTOR_REWARD_DIVIDER

\* The protocol recipient's payout: its share less the collector's reward.
ProtocolPayout(p, t) == ProtocolFeeOf(p, t) - CollectorReward(p, t)

Collectable(p) ==
    \/ TotalFees(p, 0) > REQUIRED_MIN_COLLECT_FEES
    \/ TotalFees(p, 1) > REQUIRED_MIN_COLLECT_FEES

\* Faulty variant of CollectPayouts: the protocol recipient is paid its whole
\* share on top of the collector's reward.
CollectPayoutsWholeShare(p, t, caller) ==
    <<Pay(caller, t, CollectorReward(p, t)),
      Pay(p.protocol_fee_address, t, ProtocolFeeOf(p, t)),
      Pay(p.provider_fee_address, t, ProviderFeeOf(p, t))>>

\* Steps 2-4 of a collection, per token: the collector's reward, the protocol
\* fees, the provider fees.
CollectPayouts(p, t, caller) ==
    <<Pay(caller, t, CollectorReward(p, t)),
      Pay(p.protocol_fee_address, t, ProtocolPayout(p, t)),
      Pay(p.provider_fee_address, t, ProviderFeeOf(p, t))>>

\* Faulty variant of CollectResult: the payouts are emitted and the accumulators
\* are left as they were.
CollectResultKeepsFees(p, gas_ok, caller) ==
    IF p.is_locked THEN Fail(p, "Locked")
    ELSE IF ~gas_ok THEN Fail(p, "InsufficientGas")
    ELSE IF ~Collectable(p) THEN Ok(p, <<>>)
    ELSE Ok(p, CollectPayouts(p, 0, caller) \o CollectPayouts(p, 1, caller))

\* The reward is taken out of the protocol share whether or not that share
\* covers it.
CollectResult(p, gas_ok, caller) ==
    IF p.is_locked THEN Fail(p, "Locked")
    ELSE IF ~gas_ok THEN Fail(p, "InsufficientGas")
    ELSE IF ~Collectable(p) THEN Ok(p, <<>>)   \* below the threshold: a silent no-op
    ELSE Ok(WithFees(WithFees(p, 0, 0, 0), 1, 0, 0),
            CollectPayouts(p, 0, caller) \o CollectPayouts(p, 1, caller))

\* What the call directly before this one did, when it was a collect_fees too.
CallBefore ==
    IF last.op # "collect_fees" THEN "other"
    ELSE IF last.err # "ok" THEN last.err
    ELSE IF last.res.collected THEN "collected"
    ELSE "nothing"

CollectFees ==
    \E gas_ok \in BOOLEAN :
        LET r == CollectResult(pool, gas_ok, User)
        IN  Apply("collect_fees", r,
                  [collected |-> r.err = "ok" /\ Collectable(pool),
                   provider |-> <<ProviderFeeOf(pool, 0), ProviderFeeOf(pool, 1)>>,
                   protocol |-> <<ProtocolFeeOf(pool, 0), ProtocolFeeOf(pool, 1)>>,
                   before |-> CallBefore])

(***************************************************************************)
(* set_fees, set_lock_status, update_reserves, add/remove_authorized.      *)
(***************************************************************************)
\* storeUint(value, bits) refuses a value the field cannot hold.
FitsUint(value, bits) == 0 <= value /\ value < 2 ^ bits

\* "All fees must be between 0-200 basis points".
FeeInRange(rate) == MIN_FEE <= rate /\ rate <= MAX_FEE

\* set_fees validates the three rates and both recipients and applies the five
\* values together.
SetFeesResult(p, caller, new_lp_fee, new_protocol_fee, new_ref_fee, new_protocol_fee_address, new_provider_fee_address) ==
    IF p.is_locked THEN Fail(p, "Locked")
    ELSE IF caller \notin p.authorized_addresses THEN Fail(p, "InvalidCaller")
    ELSE IF ~(FeeInRange(new_lp_fee) /\ FeeInRange(new_protocol_fee)
              /\ FeeInRange(new_ref_fee))
         THEN Fail(p, "FeeOutOfRange")
    ELSE IF new_protocol_fee_address = Null \/ new_provider_fee_address = Null
         THEN Fail(p, "InvalidRecipient")
    ELSE Ok([p EXCEPT !.lp_fee = new_lp_fee, !.protocol_fee = new_protocol_fee,
                      !.ref_fee = new_ref_fee,
                      !.protocol_fee_address = new_protocol_fee_address,
                      !.provider_fee_address = new_provider_fee_address],
            <<>>)

\* The setFees message holds the three rates, 8 bits each, and the protocol fee
\* address.  It has no field for the provider fee address: the request leaves
\* the stored one in place.
SetFees ==
    \E caller \in {Admin, User}, f \in FeeRequests, addr \in Recipients :
        /\ \A i \in 1..3 : FitsUint(f[i], FEE_BITS)
        /\ LET r == SetFeesResult(pool, caller, f[1], f[2], f[3], addr,
                                  pool.provider_fee_address)
           IN  Apply("set_fees", r, <<>>)

SetLockResult(p, caller, status) ==
    IF caller \notin p.authorized_addresses THEN Fail(p, "InvalidCaller")
    ELSE IF p.is_locked /\ status THEN Fail(p, "Locked")
    ELSE Ok([p EXCEPT !.is_locked = status], <<>>)

SetLockStatus ==
    \E caller \in {Admin, User}, status \in BOOLEAN :
        LET r == SetLockResult(pool, caller, status)
        IN  Apply("set_lock_status", r, [caller |-> caller])

\* update_reserves carries the two new reserves, which replace the stored
\* ones; it is an administrative message.
UpdateReservesResult(p, caller, new_reserve_a, new_reserve_b) ==
    IF p.is_locked THEN Fail(p, "Locked")
    ELSE IF caller \notin p.authorized_addresses THEN Fail(p, "InvalidCaller")
    ELSE Ok(WithReserves(p, new_reserve_a, new_reserve_b), <<>>)

\* Admin sends every pair of reserves; User, who is never authorized, sends one.
UpdateRequests ==
    ({Admin} \X (0..MaxReserve) \X (0..MaxReserve)) \cup {<<User, MaxReserve, 0>>}

UpdateReserves ==
    \E q \in UpdateRequests :
        LET r == UpdateReservesResult(pool, q[1], q[2], q[3])
        IN  Apply("update_reserves", r, <<>>)

AddAuthorizedResult(p, caller, address) ==
    IF p.is_locked THEN Fail(p, "Locked")
    ELSE IF caller # Owner THEN Fail(p, "InvalidCaller")
    ELSE Ok([p EXCEPT !.authorized_addresses = @ \cup {address}], <<>>)

AddAuthorized ==
    \E caller \in Callers :
        LET r == AddAuthorizedResult(pool, caller, Admin)
        IN  Apply("add_authorized", r, <<>>)

RemoveAuthorizedResult(p, caller, address) ==
    IF p.is_locked THEN Fail(p, "Locked")
    ELSE IF caller # Owner THEN Fail(p, "InvalidCaller")
    ELSE Ok([p EXCEPT !.authorized_addresses = @ \ {address}], <<>>)

RemoveAuthorized ==
    \E caller \in Callers :
        LET r == RemoveAuthorizedResult(pool, caller, Admin)
        IN  Apply("remove_authorized", r, <<>>)

Next ==
    \/ CreatePool
    \/ Swap
    \/ ProvideLiquidity
    \/ BurnNotification
    \/ CollectFees
    \/ SetFees
    \/ SetLockStatus
    \/ UpdateReserves
    \/ AddAuthorized
    \/ RemoveAuthorized

\* Every operation of the pool contract, from the contract as deployed.
Spec == Init /\ [][Next]_vars

(***************************************************************************)
(* stakeLP, claimYieldRewards, requestLoan, repayLoan, proposeInitiative:  *)
(* they keep their own books (stakers, loans, communityDAO) and read or    *)
(* write nothing of a pool, so they are explored on their own.             *)
(***************************************************************************)
Take(from, token, amount) == [from |-> from, token |-> token, amount |-> amount]

ApplyFarm(op, err, f, out) ==
    /\ farm' = f
    /\ last' = [op |-> op, err |-> err, out |-> out, res |-> <<>>]
    /\ UNCHANGED <<pool, poolCount>>

StakeLP ==
    \E sender \in Senders, amount \in Amounts :
        LET staker == farm.stakers[sender]
        IN  /\ staker.stakedAmount + amount <= MaxSupply
            /\ ApplyFarm("stake_lp", "ok",
                         [farm EXCEPT !.stakers[sender] =
                             [stakedAmount |-> staker.stakedAmount + amount,
                              rewardDebt |-> staker.rewardDebt + amount * rewardPerBlock]],
                         <<Take(sender, "LP", amount)>>)

ClaimYieldRewards ==
    \E sender \in Senders :
        LET staker == farm.stakers[sender]
            pendingReward == staker.stakedAmount * rewardPerBlock - staker.rewardDebt
        IN  ApplyFarm("claim_yield_rewards", "ok",
                      [farm EXCEPT !.stakers[sender].rewardDebt =
                                       staker.stakedAmount * rewardPerBlock],
                      <<Pay(sender, "reward", pendingReward)>>)

\* getCurrentBlock returns 0.
RequestLoan ==
    \E sender \in Senders, collateralAmount \in Amounts :
        LET loan == farm.loans[sender]
            loanAmount == (collateralAmount * 100) \div (100 + loanInterestRate)
        IN  IF ~(collateralAmount > 0) THEN ApplyFarm("request_loan", "101", farm, <<>>)
            ELSE IF ~(loan.loanAmount = 0) THEN ApplyFarm("request_loan", "102", farm, <<>>)
            ELSE ApplyFarm("request_loan", "ok",
                           [farm EXCEPT !.loans[sender] =
                               [loanAmount |-> loanAmount,
                                collateralAmount |-> collateralAmount,
                                interestRate |-> loanInterestRate,
                                dueBlock |-> 0 + loanDuration,
                                isRepaid |-> FALSE]],
                           <<Take(sender, "LP", collateralAmount),
                             Pay(sender, "loan", loanAmount)>>)

RepayLoan ==
    \E sender \in Senders :
        LET loan == farm.loans[sender]
            repaymentAmount ==
                loan.loanAmount + (loan.loanAmount * loan.interestRate) \div 100
        IN  IF loan.isRepaid THEN ApplyFarm("repay_loan", "103", farm, <<>>)
            ELSE ApplyFarm("repay_loan", "ok",
                           [farm EXCEPT !.loans[sender].isRepaid = TRUE],
                           <<Take(sender, "loan", repaymentAmount),
                             Pay(sender, "LP", loan.collateralAmount)>>)

\* No function adds a member to communityDAO.
ProposeInitiative ==
    \E sender \in Senders, amount \in Amounts :
        IF sender \notin farm.members THEN ApplyFarm("propose_initiative", "104", farm, <<>>)
        ELSE ApplyFarm("propose_initiative", "ok",
                       [farm EXCEPT !.treasury = farm.treasury - amount], <<>>)

NextFarm ==
    \/ StakeLP
    \/ ClaimYieldRewards
    \/ RequestLoan
    \/ RepayLoan
    \/ ProposeInitiative

SpecFarm == Init /\ [][NextFarm]_vars

(***************************************************************************)
(* Deposits, withdrawals and swaps alone, on a pool deployed empty.        *)
(***************************************************************************)
NextLiquidity ==
    \/ CreatePool
    \/ Swap
    \/ ProvideLiquidity
    \/ BurnNotification

SpecLiquidity == Init /\ [][NextLiquidity]_vars

(***************************************************************************)
(* get_amount_out and the get_expected_outputs getter, on pools whose data *)
(* cell was built with reserves and fee rates at the scale of real         *)
(* deployments.  Neither changes the pool.                                 *)
(***************************************************************************)
\* (reserve0, reserve1, total_supply_lp), the supply being what addLiquidity
\* credits for the two reserves.
QuoteReserves ==
    {<<1000000, 1000000, 2000000>>, <<1000, 1000, 2000>>, <<1000, 250000, 251000>>}

QuoteRates == {<<30, 5, 0>>, <<0, 0, 0>>, <<1, 1, 1>>, <<30, 5, 10>>,
               <<MAX_FEE, MAX_FEE, MAX_FEE>>}

QuoteAmounts == {1, 2, 3, 4, 5, 100, 1000, 2000}

QuotePool(reserves, rates) ==
    [PoolData(rates) EXCEPT !.reserve0 = reserves[1], !.reserve1 = reserves[2],
                            !.total_supply_lp = reserves[3]]

InitQuote ==
    /\ \E reserves \in QuoteReserves, rates \in QuoteRates :
           pool = QuotePool(reserves, rates)
    /\ Fresh

Quote(has_ref, amount, reserve_in, reserve_out) ==
    [has_ref |-> has_ref, amount |-> amount,
     reserve_in |-> reserve_in, reserve_out |-> reserve_out,
     quote |-> GetAmountOut(pool, has_ref, amount, reserve_in, reserve_out)]

\* get_amount_out(has_ref, amount, reserve_in, reserve_out) on the reserves of
\* the pool, in either direction.
ComputeAmountOut ==
    \E token \in Tokens, amount \in QuoteAmounts, has_ref \in BOOLEAN :
        Apply("get_amount_out", Ok(pool, <<>>),
              Quote(has_ref, amount, ReserveOf(pool, token), ReserveOf(pool, 1 - token)))

\* The getter's message holds the amount and the token sent, and no referral
\* address: the referral fee, "only applied when a referral address is
\* provided", is not part of its quote.
GetExpectedOutputs ==
    \E token \in Tokens, amount \in QuoteAmounts :
        Apply("get_expected_outputs", Ok(pool, <<>>),
              Quote(FALSE, amount, ReserveOf(pool, token), ReserveOf(pool, 1 - token)))

NextQuote ==
    \/ ComputeAmountOut
    \/ GetExpectedOutputs

SpecQuote == InitQuote /\ [][NextQuote]_vars

(***************************************************************************)
(* The same over a grid of reserves: every pair of reserves from 1 to      *)
(* MaxQuoteReserve.                                                        *)
(***************************************************************************)
MaxQuoteReserve == 24

InitProduct ==
    /\ \E reserve0 \in 1..MaxQuoteReserve, reserve1 \in 1..MaxQuoteReserve,
          rates \in {<<30, 5, 0>>, <<0, 0, 0>>} :
           pool = QuotePool(<<reserve0, reserve1, reserve0 + reserve1>>, rates)
    /\ Fresh

SpecProduct == InitProduct /\ [][NextQuote]_vars

(***************************************************************************)
(* collect_fees on pools whose accumulators stand at the scale of          *)
(* REQUIRED_MIN_COLLECT_FEES.                                              *)
(***************************************************************************)
AccruedChoices == {0, 1000, 500000, 1000001, 2000500}

InitCollect ==
    /\ \E provider0 \in AccruedChoices, protocol0 \in AccruedChoices,
          provider1 \in AccruedChoices, protocol1 \in AccruedChoices :
           pool = WithFees(WithFees(QuotePool(<<1000000, 1000000, 2000000>>, <<30, 5, 0>>),
                                    0, provider0, protocol0),
                           1, provider1, protocol1)
    /\ Fresh

SpecCollect == InitCollect /\ [][CollectFees]_vars

(***************************************************************************)
(* Properties.                                                             *)
(***************************************************************************)
Swapped == last.op = "swap" /\ last.err = "ok"

\* C1: a successful swap leaves the product of the reserves no smaller than
\* it was.
C1_ProductNeverDecreases ==
    [][(last'.op = "swap" /\ last'.err = "ok")
          => pool'.reserve0 * pool'.reserve1 >= pool.reserve0 * pool.reserve1]_vars

\* A swap went through and moved both reserves.
C1_Witness ==
    /\ Swapped
    /\ pool.reserve0 > 0 /\ pool.reserve1 > 0
    /\ last.res.amount > 0 /\ last.out[1].amount > 0

\* C3 (with LockStep): the pool starts Active; while it is Locked every operation is refused
\* and changes nothing, except a set_lock_status that unlocks it; and the lock
\* changes only through a set_lock_status sent by an authorized address.
LockStep ==
    /\ pool.is_locked =>
          (\/ last'.err # "ok" /\ pool' = pool
           \/ /\ last'.op = "set_lock_status" /\ last'.err = "ok"
              /\ pool' = [pool EXCEPT !.is_locked = FALSE])
    /\ pool'.is_locked # pool.is_locked =>
          (/\ last'.op = "set_lock_status" /\ last'.err = "ok"
           /\ last'.res.caller \in pool.authorized_addresses)

C3_LockedRejectsAll ==
    /\ (last.op = "init" => ~pool.is_locked)
    /\ [][LockStep]_vars

\* A deposit went through on a locked pool and was credited LP units.
C3_Witness ==
    /\ pool.is_locked
    /\ last.op = "provide_liquidity" /\ last.err = "ok"
    /\ last.res.minted > 0

\* C4: the three fee rates are within [0, 200] in every reachable state.
C4_FeeRatesInRange ==
    /\ pool.lp_fee \in 0..200
    /\ pool.protocol_fee \in 0..200
    /\ pool.ref_fee \in 0..200

\* A deposit went through on a pool whose data cell holds a rate above 200.
C4_Witness ==
    /\ last.op = "provide_liquidity" /\ last.err = "ok"
    /\ pool.total_supply_lp > 0
    /\ pool.protocol_fee > MAX_FEE

Collected == last.op = "collect_fees" /\ last.err = "ok" /\ last.res.collected

RECURSIVE PaidOut(_, _)
\* The sum of the amounts the payout instructions carry for one token.
PaidOut(out, t) ==
    IF out = <<>> THEN 0
    ELSE (IF Head(out).token = t THEN Head(out).amount ELSE 0) + PaidOut(Tail(out), t)

C6_ReservesWithinMaxCoins ==
    /\ pool.reserve0 <= MAX_COINS /\ pool.reserve1 <= MAX_COINS
    /\ \A amount \in Amounts :
           LET r == SwapAtoB(pool, amount, User)
           IN  pool.reserve0 + amount > MAX_COINS =>
                   (r.err = "MathError" /\ r.pool = pool)
    /\ \A amount0 \in Amounts, amount1 \in Amounts :
           LET r == AddLiquidity(pool, amount0, amount1, User)
           IN  (pool.reserve0 + amount0 > MAX_COINS \/ pool.reserve1 + amount1 > MAX_COINS)
                   => (r.err = "MathError" /\ r.pool = pool)

\* A deposit or a swap went through and left a reserve above MAX_COINS.
C6_Witness ==
    /\ last.op \in {"provide_liquidity", "swap"} /\ last.err = "ok"
    /\ (pool.reserve0 > MAX_COINS \/ pool.reserve1 > MAX_COINS)

\* C7: the LP supply is zero exactly when both reserves are zero, and a pool
\* with LP shares outstanding has both reserves positive.
C7_SupplyZeroIffDrained ==
    /\ (pool.total_supply_lp = 0) <=> (pool.reserve0 = 0 /\ pool.reserve1 = 0)
    /\ (pool.total_supply_lp > 0) => (pool.reserve0 > 0 /\ pool.reserve1 > 0)

\* A deposit of one token only was credited LP units and left the other
\* reserve at zero.
C7_Witness ==
    /\ last.op = "provide_liquidity" /\ last.err = "ok"
    /\ pool.total_supply_lp > 0
    /\ pool.reserve0 > 0 /\ pool.reserve1 = 0

Quoted == last.op \in {"get_amount_out", "get_expected_outputs"}

FeeSum(q) == q.provider_fee + q.protocol_fee + q.ref_fee

\* fee is the ceiling of base_out * rate / FEE_DIVIDER.
IsCeilFee(fee, base_out, rate) ==
    /\ fee * FEE_DIVIDER >= base_out * rate
    /\ (fee - 1) * FEE_DIVIDER < base_out * rate

\* C8, as stated: for every quote the three fees together do not exceed the
\* base output.
C8_FeesNeverExceedBaseOut ==
    Quoted => FeeSum(last.res.quote) <= last.res.quote.base_out

\* C8, amended: each fee is the ceiling of base_out * rate / 10000 (the
\* referral fee 0 without a referrer); the fees together do not exceed the
\* base output unless the base output is 1 or 2; and whenever they do exceed
\* it the final output is negative.
C8_FeesWithinBaseOutFromThree ==
    Quoted =>
        LET q == last.res.quote
        IN  /\ IsCeilFee(q.provider_fee, q.base_out, pool.lp_fee)
            /\ IsCeilFee(q.protocol_fee, q.base_out, pool.protocol_fee)
            /\ IF last.res.has_ref
               THEN IsCeilFee(q.ref_fee, q.base_out, pool.ref_fee)
               ELSE q.ref_fee = 0
            /\ q.base_out \notin {1, 2} => FeeSum(q) <= q.base_out
            /\ FeeSum(q) > q.base_out => q.final_out < 0

\* A quote with a referrer at the highest rates whose fees take the whole of a
\* base output of 3.
C8_Witness ==
    /\ Quoted /\ last.res.has_ref
    /\ pool.lp_fee = MAX_FEE /\ pool.protocol_fee = MAX_FEE /\ pool.ref_fee = MAX_FEE
    /\ last.res.quote.base_out = 3 /\ FeeSum(last.res.quote) = 3

\* The quote of the scenario: reserves of 1,000,000 each, rates 30 / 5 / 0,
\* 1000 units paid in.
ScenarioQuoted ==
    /\ Quoted
    /\ pool.lp_fee = 30 /\ pool.protocol_fee = 5 /\ pool.ref_fee = 0
    /\ last.res.reserve_in = 1000000 /\ last.res.reserve_out = 1000000
    /\ last.res.amount = 1000

\* C9, as stated: the scenario yields a base output of 998, fees of 3 and 1,
\* and a final output of 994.
C9_ScenarioYields994 ==
    ScenarioQuoted =>
        /\ last.res.quote.base_out = 998
        /\ last.res.quote.provider_fee = 3 /\ last.res.quote.protocol_fee = 1
        /\ last.res.quote.final_out = 994

\* C9, amended: the scenario yields a base output of 999
\* (1000 * 1000000 \div 1001000), fees of 3 and 1, no referral fee, and a
\* final output of 995.
C9_ScenarioYields995 ==
    ScenarioQuoted =>
        /\ last.res.quote.base_out = 999
        /\ last.res.quote.provider_fee = 3 /\ last.res.quote.protocol_fee = 1
        /\ last.res.quote.ref_fee = 0
        /\ last.res.quote.final_out = 995

\* The getter quoted the scenario.
C9_Witness ==
    /\ ScenarioQuoted /\ last.op = "get_expected_outputs"
    /\ last.res.quote.final_out = 995

SecondCollect == last.op = "collect_fees" /\ last.res.before # "other"

\* The call emitted no payout instruction and left every accumulator as it was.
CollectedNothing ==
    /\ last.out = <<>>
    /\ ~last.res.collected
    /\ \A t \in Tokens :
           /\ ProviderFeeOf(pool, t) = last.res.provider[t + 1]
           /\ ProtocolFeeOf(pool, t) = last.res.protocol[t + 1]

\* C11, as stated: a collect_fees that directly follows another collect_fees
\* emits no payout instruction, pays no reward and changes no accumulator,
\* whatever the first call did.
C11_SecondCollectIsNoOp ==
    SecondCollect => CollectedNothing

\* C11, amended: a collect_fees that directly follows another collect_fees
\* emits nothing, pays no reward and changes no accumulator, in every case but
\* one: it performs a collection only after a first call that was refused with
\* InsufficientGas.
C11_SecondCollectsOnlyAfterRefusedCall ==
    SecondCollect =>
        IF last.res.collected
        THEN last.res.before = "InsufficientGas"
        ELSE CollectedNothing

\* A second call found nothing left after a first call that paid the fees out.
C11_Witness ==
    /\ SecondCollect /\ last.err = "ok"
    /\ last.res.before = "collected"
    /\ CollectedNothing

ZeroReserve(p) == p.reserve0 = 0 \/ p.reserve1 = 0

\* C12 (with ZeroSwapStep): a swap of 0 is refused, and so is a swap against a pool with a
\* zero reserve, a swap of 0 against such a pool included, and the pool is left
\* as it was.  The failure kinds the swap is to report, LowAmount and
\* NoLiquidity, are kinds swapAtoB never reports: the step asks only that the
\* swap be refused, whatever the kind.
ZeroSwapStep ==
    (last'.op = "swap" /\ (last'.res.amount = 0 \/ ZeroReserve(pool))) =>
        (last'.err # "ok" /\ pool' = pool /\ last'.out = <<>>)

C12_ZeroAmountLowAmountZeroReserveNoLiquidity == [][ZeroSwapStep]_vars

\* A swap against a pool with no token A went through and took the whole of
\* token B.
C12_Witness ==
    /\ Swapped
    /\ last.res.amount > 0
    /\ pool.reserve0 = last.res.amount
    /\ last.out[1].amount > 0 /\ pool.reserve1 = 0

\* The WrongK condition: the post-trade product is below the pre-trade one.
WrongK(reserve_in, reserve_out, amount, base_out) ==
    (reserve_in + amount) * (reserve_out - base_out) < reserve_in * reserve_out

\* C13: for every quote on positive reserves and a positive amount, the
\* post-trade product (reserve_in + amount) * (reserve_out - base_out) is not
\* below the pre-trade product, so the WrongK condition is false and the swap
\* of that amount does not fail with WrongK.
C13_WrongKNeverHolds ==
    Quoted =>
        LET q == last.res
        IN  /\ (q.reserve_in + q.amount) * (q.reserve_out - q.quote.base_out)
                  >= q.reserve_in * q.reserve_out
            /\ ~WrongK(q.reserve_in, q.reserve_out, q.amount, q.quote.base_out)
            /\ SwapAtoB(pool, q.amount, User).err # "WrongK"

\* A quote whose division is exact, so that the product stays exactly where it
\* was: the closest a swap comes to the WrongK condition.
C13_Witness ==
    /\ Quoted
    /\ last.res.quote.base_out > 0 /\ last.res.quote.final_out > 0
    /\ (last.res.reserve_in + last.res.amount)
           * (last.res.reserve_out - last.res.quote.base_out)
         = last.res.reserve_in * last.res.reserve_out

\* C14: no reserve is ever negative; on a pool with both reserves positive,
\* a positive amount takes strictly less than the output reserve, in either
\* direction, and a swap leaves both reserves positive; and with an input
\* reserve of 0 the same formula yields the whole output reserve.
C14_SwapLeavesReservesPositive ==
    /\ pool.reserve0 >= 0 /\ pool.reserve1 >= 0
    /\ \A token \in Tokens, amount \in 1..(MaxAmount + 1) :
           LET rin == ReserveOf(pool, token)
               rout == ReserveOf(pool, 1 - token)
           IN  /\ (rin > 0 /\ rout > 0) =>
                      /\ BaseOut(amount, rin, rout) < rout
                      /\ LET r == SwapAtoB(pool, amount, User)
                         IN  r.err = "ok" /\ r.pool.reserve0 > 0 /\ r.pool.reserve1 > 0
               /\ BaseOut(amount, 0, rout) = rout

\* A swap paid out of a reserve that it left positive and at no more than half
\* of the other one.
C14_Witness ==
    /\ Swapped
    /\ last.out[1].amount > 0
    /\ pool.reserve1 > 0
    /\ 2 * pool.reserve1 <= pool.reserve0

RoundTrip ==
    /\ last.op = "burn_notification" /\ last.err = "ok"
    /\ last.res.deposit.follows
    /\ last.res.lp = last.res.deposit.minted

\* C10: burning exactly the LP amount a deposit minted, directly after that
\* deposit, returns no more of either token than was deposited.
C10_RoundTripReturnsNoMore ==
    RoundTrip =>
        /\ last.out[1].amount <= last.res.deposit.amount0
        /\ last.out[2].amount <= last.res.deposit.amount1

\* A round trip paid out token 0 after a deposit that brought none.
C10_Witness ==
    /\ RoundTrip
    /\ last.res.deposit.amount0 = 0
    /\ last.out[1].amount > 0
=============================================================================
